---- MODULE Spec2Model ----
(***************************************************************************)
(* A model of extensions/git/src/main.ts: the activation of the git        *)
(* extension (enablement gate, toolchain discovery, legacy-version and     *)
(* missing-git warnings), the teardown registry run by deactivate, and the *)
(* commands that register VS Code as git's editor, diff tool and merge     *)
(* tool.                                                                   *)
(*                                                                         *)
(* Every async function is cut at its awaits: one action per continuation  *)
(* (the code that runs between two suspension points).                     *)
(***************************************************************************)
EXTENDS Integers, Sequences, FiniteSets, TLC

\* ------------------------------------------------------------------ bounds

MaxActivations == 2      \* calls of activate() in one extension host
MaxFolders == 2          \* length of workspace.workspaceFolders
MaxVersionLen == 2       \* characters of info.version
MaxConfigEvents == 2     \* workspace.onDidChangeConfiguration events fired
MaxCalls == 2            \* installer commands the user runs
MaxOutputLen == 5        \* characters of a string given to the log listener

\* ------------------------------------------------------------------ values

\* JavaScript's undefined / a present value, for optional values.
None == <<>>
Some(x) == <<x>>

SeqsUpTo(S, n) == UNION {[1..k -> S] : k \in 0..n}

\* Values config.get<boolean>(key) can return.
ConfigValues == {None, Some(FALSE), Some(TRUE)}
ConfigKeys == {"enabled", "ignoreMissingGitWarning", "ignoreLegacyWarning"}

\* JavaScript truthiness of an optional boolean: `!enabled`.
Truthy(v) == v = Some(TRUE)
\* `config.get<boolean>(key) === true`.
IsTrue(v) == v = Some(TRUE)

\* info.version, a string, as its characters.
VersionChars == {"0", "1", "9", "."}
Versions == SeqsUpTo(VersionChars, MaxVersionLen)
GitPaths == {"/usr/bin/git"}
Infos == [path : GitPaths, version : Versions]

\* err.message, a string, as its words; hasMessage is FALSE for an error
\* that carries no message property.
Signature == <<"Git", "installation", "not", "found">>
Messages ==
    { <<>>,
      Signature,
      <<"Error:">> \o Signature \o <<"in", "PATH">>,
      <<"Git", "not", "found">>,
      <<"found", "not", "installation", "Git">>,
      <<"EACCES">> }
Errors == [hasMessage : {TRUE}, message : Messages]
            \cup {[hasMessage |-> FALSE, message |-> <<>>]}

\* A workspace folder: its uri.scheme and what is at <fsPath>/.git, which is
\* not known ("unread") until fs.stat has answered.
Schemes == {"file", "vscode-vfs"}
DotGitKinds == {"directory", "file", "ENOENT"}
Folders == [scheme : Schemes, dotGit : {"unread"}]
\* workspace.workspaceFolders: undefined or a list of folders.
WorkspaceFolders == {None} \cup {Some(l) : l \in SeqsUpTo(Folders, MaxFolders)}
\* What the disk holds at the '.git' path of each folder of the list l. A
\* folder of another scheme is given a '.git' directory: the scheme alone
\* must rule it out.
Disks(l) ==
    {d \in [DOMAIN l -> DotGitKinds] :
        \A k \in DOMAIN l : l[k].scheme # "file" => d[k] = "directory"}

\* What the user does with a two-action warning: one of the actions,
\* or dismissing it (showWarningMessage resolves undefined).
Choices == {"action", "neverShowAgain", "undefined"}

\* A configuration-change event and the value 'git.enabled' has after it.
ConfigEvents == [affectsGit : BOOLEAN, enabled : ConfigValues]

InstallerCommands ==
    {"git.setGitEditor", "git.setGitDiffTool", "git.setGitMergeTool", "git.setGitTools"}

\* The functions behind the installer commands.
SingleTools == {"setVsCodeAsGitEditor", "setVsCodeAsGitDiffTool", "setVsCodeAsGitMergeTool"}
Installers == SingleTools \cup {"setVsCodeAsGitTools"}

\* The command registered for each function (lines 44-47).
CommandOf(fn) ==
    CASE fn = "setVsCodeAsGitEditor" -> "git.setGitEditor"
      [] fn = "setVsCodeAsGitDiffTool" -> "git.setGitDiffTool"
      [] fn = "setVsCodeAsGitMergeTool" -> "git.setGitMergeTool"
      [] fn = "setVsCodeAsGitTools" -> "git.setGitTools"

\* What the application lookup can evaluate to: a path, or an empty (falsy)
\* string.
Apps == {"", "/usr/bin/code"}

GitConfigKeys ==
    {"core.editor", "difftool.vscode.cmd", "diff.tool", "mergetool.vscode.cmd", "merge.tool"}

\* How a `git config --global` subprocess can end.
ExecOutcomes == {"exit0", "exit1", "spawnError"}

CallIds == 1..MaxCalls

\* The strings git.onOutput emits to its 'log' listeners, as their
\* characters: a letter, a blank, and the two line-break characters.
OutputChars == {"a", " ", "\r", "\n"}
OutputStrings == SeqsUpTo(OutputChars, MaxOutputLen)

\* The characters \s matches, among OutputChars.
Whitespace == {" ", "\r", "\n"}

\* The frame of an installer command: the command's function (op), the
\* single-tool function running (fn), its suspension point (pc), the index
\* of the key whose write is awaited (step), the path setVsCodeAsGitTools
\* passes on (passed), the function's own vscodeExe, the lookups and
\* subprocesses so far, the calls of setGitGlobalConfig so far, the
\* notifications shown, the calls of outputChannel.show(), the value
\* returned and git's global configuration at that moment.
NoCall ==
    [op |-> "none", fn |-> "none", pc |-> "idle", step |-> 0, passed |-> None,
     vscodeExe |-> None, lookups |-> 0, execs |-> <<>>, setCalls |-> 0,
     notifications |-> <<>>, shown |-> 0, returned |-> None, after |-> None]

\* ------------------------------------------------------------------ state

VARIABLES
    config,             \* workspace.getConfiguration('git'): key -> value
    configWrites,       \* the config.update calls made: [key, value, global]
    nEvents,            \* configuration-change events fired so far
    registeredCommands, \* command ids given to commands.registerCommand
    deactivateTasks,    \* the module's list of teardown tasks
    activations,        \* calls of activate() so far
    pc,                 \* where the activate() in flight is suspended
    enabled,            \* activate's local `enabled`
    findGitCalls,       \* calls of findGit by this activation
    info,               \* createModel's local `info`
    err,                \* the error caught by activate's catch block
    result,             \* what activate() settled with
    shouldIgnore,       \* local `shouldIgnore` of the warning in progress
    folders,            \* workspace.workspaceFolders as read by warnAboutMissingGit
    prompts,            \* warnings shown by this activation, in order
    choice,             \* the answer the last warning resolved with
    opened,             \* 'vscode.open' commands executed by this activation
    outputChannel,      \* lines appended to this activation's output channel
    consoleWarn,        \* messages given to console.warn by this activation
    recovered,          \* warnAboutMissingGit was called by this activation
    dpc,                \* where deactivate() is
    started,            \* tasks deactivate has invoked, in order
    completed,          \* tasks whose promise has settled, in order
    app,                \* what require('electron').remote.app evaluates to
    gitConfig,          \* git's global configuration: key -> value
    calls,              \* the installer commands run: call id -> its frame
    logListener,        \* onOutput is a 'log' listener of git.onOutput
    str,                \* the string git.onOutput emits / onOutput's parameter
    lines,              \* onOutput's local `lines`
    opc                 \* where onOutput is

configVars == <<config, configWrites, nEvents>>
hostVars == <<registeredCommands, deactivateTasks, activations>>
actVars == <<pc, enabled, findGitCalls, info, err, result, shouldIgnore, folders,
             prompts, choice, opened, outputChannel, consoleWarn, recovered>>
deactVars == <<dpc, started, completed>>
installVars == <<app, gitConfig, calls>>
outputVars == <<logListener, str, lines, opc>>
vars == <<configVars, hostVars, actVars, deactVars, installVars, outputVars>>

\* ------------------------------------------------------- pure functions

\* A step of String.prototype.search for a fixed pattern: pat occurs in msg
\* at position i.
OccursAt(pat, msg, i) ==
    /\ i + Len(pat) - 1 <= Len(msg)
    /\ \A k \in 1..Len(pat) : msg[i + k - 1] = pat[k]

\* `err.message || ''`.
MessageOrEmpty(e) == IF e.hasMessage THEN e.message ELSE <<>>

\* Mutant: the pattern anchored at both ends, /^Git installation not found$/.
GitNotFoundTestAnchored(e) == MessageOrEmpty(e) = Signature

\* /Git installation not found/.test(err.message || ''): an unanchored match.
GitNotFoundTest(e) ==
    \E i \in 1..Len(MessageOrEmpty(e)) : OccursAt(Signature, MessageOrEmpty(e), i)

\* Mutant: the major version parsed as a number, so that 10.x and 19.x
\* are not legacy.
LegacyVersionTestMajor(version) ==
    /\ Len(version) >= 1
    /\ version[1] \in {"0", "1"}
    /\ Len(version) >= 2 => version[2] \notin {"0", "1", "9"}

\* /^[01]/.test(info.version).
LegacyVersionTest(version) == Len(version) >= 1 /\ version[1] \in {"0", "1"}

\* fs.stat(dotGit): an error, or the stats of what is there.
stat(folder) ==
    IF folder.dotGit = "ENOENT"
    THEN [error |-> TRUE, isDirectory |-> FALSE]
    ELSE [error |-> FALSE, isDirectory |-> folder.dotGit = "directory"]

\* Mutant: any '.git' entry counts, directory or not (fs.exists).
isGitRepositoryExists(folder) ==
    IF folder.scheme # "file" THEN FALSE
    ELSE IF stat(folder).error THEN FALSE
    ELSE TRUE

isGitRepository(folder) ==
    IF folder.scheme # "file" THEN FALSE
    ELSE IF stat(folder).error THEN FALSE
    ELSE stat(folder).isDirectory

\* filterEvent(event, filter): the filtered event fires when the event fires
\* and the filter accepts it.
filterEvent(fires, accepted) == fires /\ accepted

\* const onConfigChange = filterEvent(onDidChangeConfiguration,
\*                                    e => e.affectsConfiguration('git'))
onConfigChange(e) == filterEvent(TRUE, e.affectsGit)

\* Mutant: the second filter left out, every change of the 'git' section
\* resolves the gate.
onEnabledAnyGitChange(e, cfg) == onConfigChange(e)

\* Mutant: the second filter tests the value read at line 141 instead of
\* reading the configuration again.
onEnabledStale(e, cfg) == filterEvent(onConfigChange(e), IsTrue(enabled))

\* const onEnabled = filterEvent(onConfigChange,
\*     () => getConfiguration('git', null).get<boolean>('enabled') === true)
onEnabled(e, cfg) == filterEvent(onConfigChange(e), IsTrue(cfg["enabled"]))

\* config.update(key, value, true): the write and the new configuration.
update(cfg, key, value) == [cfg EXCEPT ![key] = Some(value)]
updateCall(key, value) == [key |-> key, value |-> value, global |-> TRUE]

\* ------------------------------------------------------------ activate

\* Mutant: the installer commands are registered with 'git.showOutput',
\* before git is looked for.
commandsOfActivateAll == {"git.showOutput"} \cup InstallerCommands

\* The commands activate itself registers, line 133.
commandsOfActivate == {"git.showOutput"}

\* activate, lines 129-147: the output channel, the telemetry reporter and
\* its teardown task, then the gate; an enabled extension goes on into
\* createModel up to its first await (findGit). The host calls activate
\* again only when the call before it has settled, and not once it has
\* begun to shut the extension down.
activate ==
    /\ pc \in {"idle", "returned", "thrown"}
    /\ dpc = "idle"
    /\ activations < MaxActivations
    /\ activations' = activations + 1
    /\ registeredCommands' = registeredCommands \cup commandsOfActivate
    /\ deactivateTasks' = Append(deactivateTasks, activations + 1)
    /\ enabled' = config["enabled"]
    /\ info' = None
    /\ err' = None
    /\ result' = "pending"
    /\ shouldIgnore' = FALSE
    /\ folders' = None
    /\ prompts' = <<>>
    /\ choice' = "unanswered"
    /\ opened' = 0
    /\ outputChannel' = <<>>
    /\ consoleWarn' = <<>>
    /\ recovered' = FALSE
    /\ IF ~Truthy(config["enabled"])
       THEN pc' = "eventToPromise" /\ findGitCalls' = 0
       ELSE pc' = "findGit" /\ findGitCalls' = 1
    /\ UNCHANGED <<configVars, deactVars>>
    /\ UNCHANGED installVars
    /\ UNCHANGED outputVars

\* A configuration-change event. An event that changes 'git.enabled' affects
\* the 'git' section. The activation waiting on eventToPromise(onEnabled)
\* (line 146) resumes when onEnabled fires, and goes on into createModel.
onDidChangeConfiguration(e) ==
    /\ nEvents < MaxConfigEvents
    /\ e.enabled # config["enabled"] => e.affectsGit
    /\ nEvents' = nEvents + 1
    /\ config' = [config EXCEPT !["enabled"] = e.enabled]
    /\ UNCHANGED configWrites
    /\ IF pc = "eventToPromise" /\ onEnabled(e, [config EXCEPT !["enabled"] = e.enabled])
       THEN /\ pc' = "findGit"
            /\ findGitCalls' = findGitCalls + 1
            /\ UNCHANGED <<enabled, info, err, result, shouldIgnore, folders, prompts,
                           choice, opened, outputChannel, consoleWarn, recovered>>
       ELSE UNCHANGED actVars
    /\ UNCHANGED <<hostVars, deactVars>>
    /\ UNCHANGED installVars
    /\ UNCHANGED outputVars

\* warnAboutMissingGit, lines 96-107: up to the await of the folders' stats.
\* workspace.workspaceFolders is read only past the shouldIgnore return.
warnAboutMissingGit ==
    LET ignore == IsTrue(config["ignoreMissingGitWarning"]) IN
    /\ recovered' = TRUE
    /\ shouldIgnore' = ignore
    /\ IF ignore
       THEN /\ folders' = None
            /\ pc' = "returned"
            /\ result' = "noModel"
       ELSE \E workspaceFolders \in WorkspaceFolders :
            /\ folders' = workspaceFolders
            /\ IF workspaceFolders = None
               THEN pc' = "returned" /\ result' = "noModel"
               ELSE pc' = "stat" /\ result' = "pending"

\* activate's catch block, lines 152-160. createModel's frame, and with it
\* its local `info`, is gone when the error reaches the catch block.
catch(e) ==
    /\ err' = Some(e)
    /\ info' = None
    /\ IF ~GitNotFoundTest(e)
       THEN /\ pc' = "thrown"
            /\ result' = "error"
            /\ UNCHANGED <<shouldIgnore, folders, outputChannel, consoleWarn, recovered>>
       ELSE /\ consoleWarn' = Append(consoleWarn, e.message)
            /\ outputChannel' = Append(outputChannel, e.message)
            /\ warnAboutMissingGit

\* createModel, line 35: findGit resolves with the toolchain's info; then
\* line 39 awaits askpass.getEnv().
findGitResolves(i) ==
    /\ pc = "findGit"
    /\ info' = Some(i)
    /\ pc' = "getEnv"
    /\ UNCHANGED <<enabled, findGitCalls, err, result, shouldIgnore, folders, prompts,
                   choice, opened, outputChannel, consoleWarn, recovered>>
    /\ UNCHANGED <<configVars, hostVars, deactVars>>
    /\ UNCHANGED installVars
    /\ UNCHANGED outputVars

\* createModel, line 35: findGit rejects.
findGitRejects(e) ==
    /\ pc = "findGit"
    /\ catch(e)
    /\ UNCHANGED <<enabled, findGitCalls, prompts, choice, opened>>
    /\ UNCHANGED <<configVars, hostVars, deactVars>>
    /\ UNCHANGED installVars
    /\ UNCHANGED outputVars

\* Mutant: checkGitVersion is called without await, createModel returns the
\* model while the warning is still up.
checkGitVersionNotAwaited(i) ==
    LET ignore == IsTrue(config["ignoreLegacyWarning"]) IN
    /\ shouldIgnore' = ignore
    /\ result' = "model"
    /\ IF ignore \/ ~LegacyVersionTest(i.version)
       THEN /\ pc' = "returned"
            /\ UNCHANGED prompts
       ELSE /\ pc' = "legacyWarning"
            /\ prompts' = Append(prompts, "legacy")

\* checkGitVersion, lines 233-251: up to the await of the warning.
checkGitVersion(i) ==
    LET ignore == IsTrue(config["ignoreLegacyWarning"]) IN
    /\ shouldIgnore' = ignore
    /\ IF ignore \/ ~LegacyVersionTest(i.version)
       THEN /\ pc' = "returned"
            /\ result' = "model"
            /\ UNCHANGED prompts
       ELSE /\ pc' = "legacyWarning"
            /\ result' = "pending"
            /\ prompts' = Append(prompts, "legacy")

\* createModel, lines 40-75: getEnv resolved; the Git wrapper, the model, the
\* four installer commands and the log listener are set up, then
\* checkGitVersion is called.
getEnvResolves ==
    /\ pc = "getEnv"
    /\ registeredCommands' = registeredCommands \cup InstallerCommands
    /\ outputChannel' = Append(outputChannel, <<"Using", "git">>)
    /\ logListener' = TRUE
    /\ checkGitVersion(info[1])
    /\ UNCHANGED <<enabled, findGitCalls, info, err, folders, choice, opened,
                   consoleWarn, recovered>>
    /\ UNCHANGED <<configVars, deactivateTasks, activations, deactVars>>
    /\ UNCHANGED installVars
    /\ UNCHANGED <<str, lines, opc>>

\* createModel, line 39: askpass.getEnv() rejects.
getEnvRejects(e) ==
    /\ pc = "getEnv"
    /\ catch(e)
    /\ UNCHANGED <<enabled, findGitCalls, prompts, choice, opened>>
    /\ UNCHANGED <<configVars, hostVars, deactVars>>
    /\ UNCHANGED installVars
    /\ UNCHANGED outputVars

\* Mutant: a plain else, the flag is written unless 'update' was chosen.
checkGitVersionChoiceElse(c) ==
    /\ choice' = c
    /\ IF c = "action"
       THEN /\ opened' = opened + 1
            /\ UNCHANGED <<config, configWrites>>
       ELSE /\ config' = update(config, "ignoreLegacyWarning", TRUE)
            /\ configWrites' = configWrites \cup {updateCall("ignoreLegacyWarning", TRUE)}
            /\ UNCHANGED opened

\* checkGitVersion, lines 253-257: the warning resolved with choice c.
checkGitVersionChoice(c) ==
    /\ choice' = c
    /\ IF c = "action"
       THEN /\ opened' = opened + 1
            /\ UNCHANGED <<config, configWrites>>
       ELSE IF c = "neverShowAgain"
       THEN /\ config' = update(config, "ignoreLegacyWarning", TRUE)
            /\ configWrites' = configWrites \cup {updateCall("ignoreLegacyWarning", TRUE)}
            /\ UNCHANGED opened
       ELSE UNCHANGED <<config, configWrites, opened>>

\* The legacy warning is answered; createModel returns the model and
\* activate returns createGitExtension(model).
legacyWarningResolves(c) ==
    /\ pc = "legacyWarning"
    /\ checkGitVersionChoice(c)
    /\ pc' = "returned"
    /\ result' = "model"
    /\ UNCHANGED <<enabled, findGitCalls, info, err, shouldIgnore, folders, prompts,
                   outputChannel, consoleWarn, recovered>>
    /\ UNCHANGED <<nEvents, hostVars, deactVars>>
    /\ UNCHANGED installVars
    /\ UNCHANGED outputVars

\* warnAboutMissingGit, lines 107-119: the stats settled, each with what the
\* disk holds.
statResolves ==
    /\ pc = "stat"
    /\ \E disk \in Disks(folders[1]) :
         LET onDisk == [k \in DOMAIN folders[1] |->
                           [folders[1][k] EXCEPT !.dotGit = disk[k]]]
             areGitRepositories == [k \in DOMAIN onDisk |-> isGitRepository(onDisk[k])]
         IN /\ folders' = Some(onDisk)
            /\ IF \A k \in DOMAIN areGitRepositories : ~areGitRepositories[k]
               THEN /\ pc' = "returned"
                    /\ result' = "noModel"
                    /\ UNCHANGED prompts
               ELSE /\ pc' = "missingWarning"
                    /\ prompts' = Append(prompts, "missing")
                    /\ UNCHANGED result
    /\ UNCHANGED <<enabled, findGitCalls, info, err, shouldIgnore, choice,
                   opened, outputChannel, consoleWarn, recovered>>
    /\ UNCHANGED <<configVars, hostVars, deactVars>>
    /\ UNCHANGED installVars
    /\ UNCHANGED outputVars

\* Mutant: the other warning's flag is written.
warnAboutMissingGitChoiceWrongKey(c) ==
    /\ choice' = c
    /\ IF c = "action"
       THEN /\ opened' = opened + 1
            /\ UNCHANGED <<config, configWrites>>
       ELSE IF c = "neverShowAgain"
       THEN /\ config' = update(config, "ignoreLegacyWarning", TRUE)
            /\ configWrites' = configWrites \cup {updateCall("ignoreLegacyWarning", TRUE)}
            /\ UNCHANGED opened
       ELSE UNCHANGED <<config, configWrites, opened>>

\* warnAboutMissingGit, lines 121-125: the warning resolved with choice c.
warnAboutMissingGitChoice(c) ==
    /\ choice' = c
    /\ IF c = "action"
       THEN /\ opened' = opened + 1
            /\ UNCHANGED <<config, configWrites>>
       ELSE IF c = "neverShowAgain"
       THEN /\ config' = update(config, "ignoreMissingGitWarning", TRUE)
            /\ configWrites' =
                   configWrites \cup {updateCall("ignoreMissingGitWarning", TRUE)}
            /\ UNCHANGED opened
       ELSE UNCHANGED <<config, configWrites, opened>>

\* The missing-git warning is answered; activate returns
\* createGitExtension() (line 162).
missingWarningResolves(c) ==
    /\ pc = "missingWarning"
    /\ warnAboutMissingGitChoice(c)
    /\ pc' = "returned"
    /\ result' = "noModel"
    /\ UNCHANGED <<enabled, findGitCalls, info, err, shouldIgnore, folders, prompts,
                   outputChannel, consoleWarn, recovered>>
    /\ UNCHANGED <<nEvents, hostVars, deactVars>>
    /\ UNCHANGED installVars
    /\ UNCHANGED outputVars

\* ---------------------------------------------------------- deactivate

\* Mutant: the tasks are invoked without awaiting each one.
deactivateLoopNoAwait(k) ==
    IF k > Len(deactivateTasks)
    THEN /\ dpc' = "returned"
         /\ UNCHANGED started
    ELSE /\ dpc' = "task"
         /\ started' = started \o SubSeq(deactivateTasks, k, Len(deactivateTasks))

\* The for-of loop of deactivate at index k (1-based): past the end it
\* returns, otherwise it invokes task k and awaits it.
deactivateLoop(k) ==
    IF k > Len(deactivateTasks)
    THEN /\ dpc' = "returned"
         /\ UNCHANGED started
    ELSE /\ dpc' = "task"
         /\ started' = Append(started, deactivateTasks[k])

\* The locals of an activation that has settled are gone.
settled ==
    /\ pc' = "idle"
    /\ enabled' = None
    /\ findGitCalls' = 0
    /\ info' = None
    /\ err' = None
    /\ result' = "pending"
    /\ shouldIgnore' = FALSE
    /\ folders' = None
    /\ prompts' = <<>>
    /\ choice' = "unanswered"
    /\ opened' = 0
    /\ outputChannel' = <<>>
    /\ consoleWarn' = <<>>
    /\ recovered' = FALSE

\* deactivate is called: the host shuts the extension down once no
\* activation is in flight.
deactivate ==
    /\ dpc = "idle"
    /\ pc \in {"idle", "returned", "thrown"}
    /\ deactivateLoop(1)
    /\ settled
    /\ UNCHANGED <<completed, configVars, hostVars>>
    /\ UNCHANGED installVars
    /\ UNCHANGED outputVars

\* The awaited task resolves: the loop goes on.
taskResolves ==
    /\ dpc = "task"
    /\ completed' = Append(completed, [task |-> deactivateTasks[Len(started)], ok |-> TRUE])
    /\ deactivateLoop(Len(started) + 1)
    /\ UNCHANGED <<configVars, hostVars, actVars>>
    /\ UNCHANGED installVars
    /\ UNCHANGED outputVars

\* The awaited task rejects: the await throws out of the loop and deactivate
\* rejects.
taskRejects ==
    /\ dpc = "task"
    /\ completed' = Append(completed, [task |-> deactivateTasks[Len(started)], ok |-> FALSE])
    /\ dpc' = "thrown"
    /\ UNCHANGED <<started, configVars, hostVars, actVars>>
    /\ UNCHANGED installVars
    /\ UNCHANGED outputVars

\* ------------------------------------------------------------ installer

\* JavaScript truthiness of an optional string: `vscodeExe || ...`.
TruthyString(v) == v # None /\ v[1] # ""

\* The keys each single-tool function writes, in order.
Keys(fn) ==
    CASE fn = "setVsCodeAsGitEditor" -> <<"core.editor">>
      [] fn = "setVsCodeAsGitDiffTool" -> <<"difftool.vscode.cmd", "diff.tool">>
      [] fn = "setVsCodeAsGitMergeTool" -> <<"mergetool.vscode.cmd", "merge.tool">>

\* Mutant: the merge tool's command is a copy of the diff tool's.
ValueMergeAsDiff(fn, step, vscodeExe) ==
    CASE fn = "setVsCodeAsGitEditor" -> <<"\"", vscodeExe, "\" --wait">>
      [] fn \in {"setVsCodeAsGitDiffTool", "setVsCodeAsGitMergeTool"} /\ step = 1 ->
             <<"\"", vscodeExe, "\" --wait --diff \"$LOCAL\" \"$REMOTE\"">>
      [] OTHER -> <<"vscode">>

\* The value written for the step-th key of fn: the template strings of
\* lines 169, 182-183 and 196-197, as their pieces.
Value(fn, step, vscodeExe) ==
    CASE fn = "setVsCodeAsGitEditor" -> <<"\"", vscodeExe, "\" --wait">>
      [] fn = "setVsCodeAsGitDiffTool" /\ step = 1 ->
             <<"\"", vscodeExe, "\" --wait --diff \"$LOCAL\" \"$REMOTE\"">>
      [] fn = "setVsCodeAsGitMergeTool" /\ step = 1 ->
             <<"\"", vscodeExe, "\" --wait \"$MERGED\"">>
      [] OTHER -> <<"vscode">>

\* The tool setVsCodeAsGitTools runs after fn (lines 209-211).
NextTool(fn) ==
    IF fn = "setVsCodeAsGitEditor" THEN "setVsCodeAsGitDiffTool"
    ELSE "setVsCodeAsGitMergeTool"

\* Mutant: the exit code is not looked at, every exec that does not throw
\* counts as a success.
setGitGlobalConfigAnyExit(outcome) ==
    IF outcome = "spawnError" THEN FALSE
    ELSE TRUE

\* setGitGlobalConfig, lines 218-230: true when git exits with code 0, false
\* for another exit code and for an exec that throws.
setGitGlobalConfig(outcome) ==
    IF outcome = "spawnError" THEN FALSE
    ELSE IF outcome # "exit0" THEN FALSE
    ELSE TRUE

\* setGitGlobalConfig, lines 219 and 226-229: whether the call throws to its
\* caller. The whole body is inside try/catch, and the catch block returns.
setGitGlobalConfigThrows(outcome) == FALSE

\* setGitGlobalConfig is called for the step-th key of the running function
\* (lines 169, 182-183, 196-197) and awaits git.exec (line 220).
callSetGitGlobalConfig(r, step) ==
    [r EXCEPT !.pc = "exec", !.step = step, !.setCalls = @ + 1]

\* Mutant: a write that fails undoes the writes made before it.
gitConfigAfterRollback(cfg, key, value, outcome) ==
    IF outcome = "exit0" THEN [cfg EXCEPT ![key] = Some(value)]
    ELSE [k \in DOMAIN cfg |-> None]

\* Mutant: git is run with --add, a key that has a value gets the new
\* value after the old one.
gitConfigAfterAdd(cfg, key, value, outcome) ==
    IF outcome = "exit0"
    THEN [cfg EXCEPT ![key] = IF @ = None THEN Some(value) ELSE Some(@[1] \o value)]
    ELSE cfg

\* `git config --global key value`: git stores the value when it exits 0.
gitConfigAfter(cfg, key, value, outcome) ==
    IF outcome = "exit0" THEN [cfg EXCEPT ![key] = Some(value)] ELSE cfg

\* Mutant: `&` for `&&`, the next key is written whatever the write before
\* it returned.
nextKeyAttemptedAlways(r, ok) == r.step < Len(Keys(r.fn))

\* The `&&` of lines 182-183 and 196-197: the function's next key is written
\* only when the write before it returned true.
nextKeyAttempted(r, ok) == ok /\ r.step < Len(Keys(r.fn))

\* Mutant: setVsCodeAsGitTools goes on to the next tool whatever the tool
\* before it returned.
nextToolAttemptedAlways(r, ret) ==
    r.op = "setVsCodeAsGitTools" /\ r.fn # "setVsCodeAsGitMergeTool"

\* The `&&` chain of lines 209-211: setVsCodeAsGitTools runs the next tool
\* only when the tool before it returned true.
nextToolAttempted(r, ret) ==
    ret /\ r.op = "setVsCodeAsGitTools" /\ r.fn # "setVsCodeAsGitMergeTool"

\* A single-tool function is entered (lines 167, 180, 194): a truthy
\* vscodeExe argument is used as it is and the first key's write awaited,
\* otherwise findVsCodeExeInPath is awaited.
enter(r, fn) ==
    IF TruthyString(r.passed)
    THEN callSetGitGlobalConfig([r EXCEPT !.fn = fn, !.vscodeExe = r.passed], 1)
    ELSE [r EXCEPT !.fn = fn, !.vscodeExe = r.passed, !.pc = "findVsCodeExeInPath",
                   !.step = 0, !.lookups = @ + 1]

\* A single-tool function ends (lines 170-175, 184-189, 198-203): the
\* notification, on failure the output channel shown, and the return into
\* the command or into setVsCodeAsGitTools.
leave(r, ret) ==
    LET shown == [r EXCEPT !.notifications =
                               Append(@, [kind |-> IF ret THEN "information" ELSE "error",
                                          fn |-> r.fn]),
                           !.shown = IF ret THEN @ ELSE @ + 1]
    IN IF nextToolAttempted(shown, ret)
       THEN enter(shown, NextTool(r.fn))
       ELSE [shown EXCEPT !.pc = "returned", !.returned = Some(ret)]

\* The user runs an installer command.
invoke(c, op) ==
    /\ calls[c].pc = "idle"
    /\ CommandOf(op) \in registeredCommands
    /\ calls' = [calls EXCEPT ![c] =
                    IF op = "setVsCodeAsGitTools"
                    THEN [NoCall EXCEPT !.op = op, !.pc = "findVsCodeExeInPath",
                                        !.lookups = 1]
                    ELSE enter([NoCall EXCEPT !.op = op], op)]
    /\ UNCHANGED <<app, gitConfig, configVars, hostVars, actVars, deactVars, outputVars>>

\* findVsCodeExeInPath (lines 214-216) resolves: in setVsCodeAsGitTools
\* (line 208) the value is passed to setVsCodeAsGitEditor, in a single-tool
\* function it becomes vscodeExe and the first key's write is awaited.
findVsCodeExeInPathResolves(c) ==
    /\ calls[c].pc = "findVsCodeExeInPath"
    /\ calls' = [calls EXCEPT ![c] =
                    IF calls[c].fn = "none"
                    THEN enter([calls[c] EXCEPT !.passed = Some(app)], "setVsCodeAsGitEditor")
                    ELSE callSetGitGlobalConfig([calls[c] EXCEPT !.vscodeExe = Some(app)], 1)]
    /\ UNCHANGED <<app, gitConfig, configVars, hostVars, actVars, deactVars, outputVars>>

\* The git subprocess of the awaited setGitGlobalConfig ends, and
\* setGitGlobalConfig returns into the single-tool function; an error it
\* threw would reject the command, no caller catches.
gitExecSettles(c, outcome) ==
    /\ calls[c].pc = "exec"
    /\ LET r == calls[c]
           key == Keys(r.fn)[r.step]
           value == Value(r.fn, r.step, r.vscodeExe[1])
           ok == setGitGlobalConfig(outcome)
           done == [r EXCEPT !.execs =
                                 Append(@, [key |-> key, value |-> value, outcome |-> outcome,
                                            ret |-> ok])]
           cfg == gitConfigAfter(gitConfig, key, value, outcome)
           next == IF setGitGlobalConfigThrows(outcome)
                   THEN [done EXCEPT !.pc = "thrown"]
                   ELSE IF nextKeyAttempted(done, ok)
                   THEN callSetGitGlobalConfig(done, done.step + 1)
                   ELSE leave(done, ok)
       IN /\ gitConfig' = cfg
          /\ calls' = [calls EXCEPT ![c] =
                          IF next.pc = "returned" THEN [next EXCEPT !.after = Some(cfg)]
                          ELSE next]
    /\ UNCHANGED <<app, configVars, hostVars, actVars, deactVars, outputVars>>

\* ------------------------------------------------------- the log listener

\* str.split(/\r?\n/mg): the pieces of str between its line breaks, a line
\* break being "\n" with the "\r" right before it, if any.
RECURSIVE split(_)
split(s) ==
    IF s = <<>> THEN << <<>> >>
    ELSE IF s[1] = "\n" THEN << <<>> >> \o split(Tail(s))
    ELSE IF Len(s) >= 2 /\ s[1] = "\r" /\ s[2] = "\n"
    THEN << <<>> >> \o split(SubSeq(s, 3, Len(s)))
    ELSE LET rest == split(Tail(s))
         IN << <<s[1]>> \o rest[1] >> \o Tail(rest)

\* lines.join('\n')
RECURSIVE join(_)
join(ls) ==
    IF ls = <<>> THEN <<>>
    ELSE IF Len(ls) = 1 THEN ls[1]
    ELSE ls[1] \o <<"\n">> \o join(Tail(ls))

\* lines[lines.length - 1]: the last element, undefined for an empty array.
last(ls) == IF ls = <<>> THEN None ELSE Some(ls[Len(ls)])

\* Mutant: undefined is read as the empty string.
StringOfEmpty(v) == IF v = None THEN <<>> ELSE v[1]

\* RegExp.prototype.test converts its argument to a string: undefined
\* becomes "undefined".
StringOf(v) ==
    IF v = None THEN <<"u", "n", "d", "e", "f", "i", "n", "e", "d">> ELSE v[1]

\* Mutant: /^$/, only an empty line counts as blank.
BlankTestEmpty(v) == StringOf(v) = <<>>

\* /^\s*$/.test(v), line 59.
BlankTest(v) == \A k \in DOMAIN StringOf(v) : StringOf(v)[k] \in Whitespace

\* lines.pop(): the array without its last element; an empty array stays
\* empty.
pop(ls) == IF ls = <<>> THEN <<>> ELSE SubSeq(ls, 1, Len(ls) - 1)

\* git.onOutput emits str and the listener is called, lines 56-57: the
\* string is split.
onOutput ==
    /\ logListener
    /\ opc = "idle"
    /\ lines' = split(str)
    /\ opc' = "while"
    /\ UNCHANGED <<logListener, str>>
    /\ UNCHANGED <<configVars, hostVars, actVars, deactVars, installVars>>

\* One turn of the while loop, lines 59-61: the last line is blank and is
\* popped.
whilePop ==
    /\ opc = "while"
    /\ BlankTest(last(lines))
    /\ lines' = pop(lines)
    /\ UNCHANGED <<logListener, str, opc>>
    /\ UNCHANGED <<configVars, hostVars, actVars, deactVars, installVars>>

\* The loop's test fails, line 63: the lines left are joined and appended
\* to the output channel, and onOutput returns.
appendLine ==
    /\ opc = "while"
    /\ ~BlankTest(last(lines))
    /\ outputChannel' = Append(outputChannel, join(lines))
    /\ opc' = "returned"
    /\ UNCHANGED <<logListener, str, lines>>
    /\ UNCHANGED <<pc, enabled, findGitCalls, info, err, result, shouldIgnore, folders,
                   prompts, choice, opened, consoleWarn, recovered>>
    /\ UNCHANGED <<configVars, hostVars, deactVars, installVars>>

\* The extension host is restarted: the module is loaded anew, with an empty
\* deactivateTasks and no command registered; the user's settings and git's
\* global configuration are kept.
restart ==
    /\ pc \in {"returned", "thrown"}
    /\ dpc \in {"idle", "returned", "thrown"}
    /\ activations < MaxActivations
    /\ registeredCommands' = {}
    /\ deactivateTasks' = <<>>
    /\ settled
    /\ dpc' = "idle"
    /\ started' = <<>>
    /\ completed' = <<>>
    /\ logListener' = FALSE
    /\ UNCHANGED <<activations, configVars, installVars, str, lines, opc>>

\* ------------------------------------------------------- specification

Init ==
    /\ config \in [ConfigKeys -> ConfigValues]
    /\ configWrites = {}
    /\ nEvents = 0
    /\ registeredCommands = {}
    /\ deactivateTasks = <<>>
    /\ activations = 0
    /\ pc = "idle"
    /\ enabled = None
    /\ findGitCalls = 0
    /\ info = None
    /\ err = None
    /\ result = "pending"
    /\ shouldIgnore = FALSE
    /\ folders = None
    /\ prompts = <<>>
    /\ choice = "unanswered"
    /\ opened = 0
    /\ outputChannel = <<>>
    /\ consoleWarn = <<>>
    /\ recovered = FALSE
    /\ dpc = "idle"
    /\ started = <<>>
    /\ completed = <<>>
    /\ app = "/usr/bin/code"
    /\ gitConfig = [k \in GitConfigKeys |-> None]
    /\ calls = [c \in CallIds |-> NoCall]
    /\ logListener = FALSE
    /\ str = <<>>
    /\ lines = <<>>
    /\ opc = "idle"

Next ==
    \/ activate
    \/ \E e \in ConfigEvents : onDidChangeConfiguration(e)
    \/ \E i \in Infos : findGitResolves(i)
    \/ \E e \in Errors : findGitRejects(e)
    \/ getEnvResolves
    \/ \E e \in Errors : getEnvRejects(e)
    \/ \E c \in Choices : legacyWarningResolves(c)
    \/ statResolves
    \/ \E c \in Choices : missingWarningResolves(c)
    \/ deactivate
    \/ taskResolves
    \/ taskRejects
    \/ restart

Spec == Init /\ [][Next]_vars

\* The installer commands, run one after another by the user once an
\* activation has found git 9 and registered them.
InitInstall ==
    /\ config = [k \in ConfigKeys |-> IF k = "enabled" THEN Some(TRUE) ELSE None]
    /\ configWrites = {}
    /\ nEvents = 0
    /\ registeredCommands = InstallerCommands \cup {"git.showOutput"}
    /\ deactivateTasks = <<1>>
    /\ activations = 1
    /\ pc = "returned"
    /\ enabled = Some(TRUE)
    /\ findGitCalls = 1
    /\ info = Some([path |-> "/usr/bin/git", version |-> <<"9">>])
    /\ err = None
    /\ result = "model"
    /\ shouldIgnore = FALSE
    /\ folders = None
    /\ prompts = <<>>
    /\ choice = "unanswered"
    /\ opened = 0
    /\ outputChannel = << <<"Using", "git">> >>
    /\ consoleWarn = <<>>
    /\ recovered = FALSE
    /\ dpc = "idle"
    /\ started = <<>>
    /\ completed = <<>>
    /\ app \in Apps
    /\ gitConfig = [k \in GitConfigKeys |-> None]
    /\ calls = [c \in CallIds |-> NoCall]
    /\ logListener = TRUE
    /\ str = <<>>
    /\ lines = <<>>
    /\ opc = "idle"

NextInstall ==
    \/ \E c \in CallIds, op \in Installers :
           /\ \A d \in CallIds : calls[d].pc \in {"idle", "returned"}
           /\ \A d \in CallIds : d < c => calls[d].pc = "returned"
           /\ invoke(c, op)
    \/ \E c \in CallIds : findVsCodeExeInPathResolves(c)
    \/ \E c \in CallIds, outcome \in ExecOutcomes : gitExecSettles(c, outcome)

SpecInstall == InitInstall /\ [][NextInstall]_vars

\* The installer commands run at the same time: the user runs a command
\* while others are still awaiting their lookup or a git subprocess.
NextConcurrent ==
    \/ \E c \in CallIds, op \in Installers :
           /\ \A d \in CallIds : d < c => calls[d].pc # "idle"
           /\ invoke(c, op)
    \/ \E c \in CallIds : findVsCodeExeInPathResolves(c)
    \/ \E c \in CallIds, outcome \in ExecOutcomes : gitExecSettles(c, outcome)

SpecConcurrent == InitInstall /\ [][NextConcurrent]_vars

\* The log listener called with a string git emits, once an activation has
\* registered it.
InitOutput ==
    /\ config = [k \in ConfigKeys |-> IF k = "enabled" THEN Some(TRUE) ELSE None]
    /\ configWrites = {}
    /\ nEvents = 0
    /\ registeredCommands = InstallerCommands \cup {"git.showOutput"}
    /\ deactivateTasks = <<1>>
    /\ activations = 1
    /\ pc = "returned"
    /\ enabled = Some(TRUE)
    /\ findGitCalls = 1
    /\ info = Some([path |-> "/usr/bin/git", version |-> <<"9">>])
    /\ err = None
    /\ result = "model"
    /\ shouldIgnore = FALSE
    /\ folders = None
    /\ prompts = <<>>
    /\ choice = "unanswered"
    /\ opened = 0
    /\ outputChannel = << <<"Using", "git">> >>
    /\ consoleWarn = <<>>
    /\ recovered = FALSE
    /\ dpc = "idle"
    /\ started = <<>>
    /\ completed = <<>>
    /\ app = "/usr/bin/code"
    /\ gitConfig = [k \in GitConfigKeys |-> None]
    /\ calls = [c \in CallIds |-> NoCall]
    /\ logListener = TRUE
    /\ str \in OutputStrings
    /\ lines = <<>>
    /\ opc = "idle"

NextOutput ==
    \/ onOutput
    \/ whilePop
    \/ appendLine

SpecOutput == InitOutput /\ [][NextOutput]_vars

\* onOutput is synchronous: once called it runs its next step.
SpecOutputFair == SpecOutput /\ WF_vars(NextOutput)

\* Activation together with the installer commands: the extension is
\* enabled, the host activates it, and the user runs an installer command
\* whenever the command palette has it, while the activation is still in
\* flight or after it; the host activates again only while no command has
\* run.
InitAll ==
    /\ Init
    /\ config = [k \in ConfigKeys |-> IF k = "enabled" THEN Some(TRUE) ELSE None]

NextAll ==
    \/ activate /\ \A c \in CallIds : calls[c].pc = "idle"
    \/ \E i \in Infos : findGitResolves(i)
    \/ \E e \in Errors : findGitRejects(e)
    \/ getEnvResolves
    \/ \E e \in Errors : getEnvRejects(e)
    \/ \E c \in Choices : legacyWarningResolves(c)
    \/ statResolves
    \/ \E c \in Choices : missingWarningResolves(c)
    \/ \E c \in CallIds, op \in Installers :
           /\ \A d \in CallIds : calls[d].pc = "idle" /\ c <= d
           /\ invoke(c, op)
    \/ \E c \in CallIds : findVsCodeExeInPathResolves(c)
    \/ \E c \in CallIds, outcome \in ExecOutcomes : gitExecSettles(c, outcome)

SpecAll == InitAll /\ [][NextAll]_vars

\* ------------------------------------------------------------- deactivate

Flags == {"ignoreMissingGitWarning", "ignoreLegacyWarning"}

\* The tasks deactivate invoked whose promise settled, in order.
CompletedTasks == [k \in DOMAIN completed |-> completed[k].task]

\* C2: on shutdown a failing teardown task does not keep the tasks registered
\* after it from running: once deactivate has settled, every registered task
\* has been invoked.
C2_EveryTaskInvoked ==
    dpc \in {"returned", "thrown"} => Len(started) = Len(deactivateTasks)

\* The tasks were taken in registration order, and a task is invoked only
\* when every task invoked before it has settled.
InOrderOneAtATime ==
    /\ Len(started) <= Len(deactivateTasks)
    /\ started = SubSeq(deactivateTasks, 1, Len(started))
    /\ Len(completed) <= Len(started)
    /\ Len(started) <= Len(completed) + 1
    /\ CompletedTasks = SubSeq(started, 1, Len(completed))
    /\ dpc = "task" <=> Len(started) = Len(completed) + 1

\* C3: when no task fails, deactivate invokes the registered tasks strictly
\* in registration order and one at a time (a task is not started before the
\* one before it has completed) and ends having run them all; no operation
\* of the extension (every step but a restart of its host) removes or
\* reorders entries of the list.
C3_InOrderOneAtATime ==
    /\ [](InOrderOneAtATime)
    /\ []((dpc = "returned") => (started = deactivateTasks))
    /\ [][~restart =>
            /\ Len(deactivateTasks) <= Len(deactivateTasks')
            /\ \A k \in DOMAIN deactivateTasks : deactivateTasks'[k] = deactivateTasks[k]]_vars

C3_Witness ==
    /\ dpc = "returned"
    /\ Len(deactivateTasks) >= 2
    /\ started = deactivateTasks
    /\ \A k \in DOMAIN completed : completed[k].ok

\* --------------------------------------------------------------- activate

\* C4: an activation that finds the switch true does not wait at the gate;
\* one that finds it not true calls findGit only in the step of a
\* configuration-change event after which the switch is true, and stays
\* suspended through every event that leaves the switch not true.
C4_GateHoldsUntilEnabled ==
    /\ [](IsTrue(enabled) => pc # "eventToPromise" /\ findGitCalls = 1)
    /\ []((pc = "eventToPromise") => (findGitCalls = 0 /\ info = None /\ result = "pending"))
    /\ [][(findGitCalls' > findGitCalls /\ ~IsTrue(enabled'))
            => (nEvents' = nEvents + 1 /\ config'["enabled"] = Some(TRUE))]_vars
    /\ [][(pc = "eventToPromise" /\ nEvents' = nEvents + 1
             /\ config'["enabled"] # Some(TRUE))
            => (pc' = "eventToPromise" /\ findGitCalls' = 0)]_vars

C4_Witness ==
    /\ pc = "eventToPromise"
    /\ enabled = Some(FALSE)
    /\ nEvents = 2
    /\ findGitCalls = 0

\* C5: an activation suspended at the gate resumes in the step of the first
\* configuration-change event after which the switch is true, and goes on to
\* discovery exactly once: findGit is called once per activation, whatever
\* events follow.
C5_GateResolvesOnce ==
    /\ [][(pc = "eventToPromise" /\ nEvents' = nEvents + 1
             /\ config'["enabled"] = Some(TRUE))
            => (pc' = "findGit" /\ findGitCalls' = 1)]_vars
    /\ [](findGitCalls <= 1)
    /\ []((pc \notin {"idle", "eventToPromise"}) => (findGitCalls = 1))
    /\ [][(pc \notin {"idle", "eventToPromise", "returned", "thrown"})
            => (findGitCalls' = findGitCalls)]_vars

C5_Witness ==
    /\ enabled = Some(FALSE)
    /\ nEvents = 2
    /\ config["enabled"] = Some(TRUE)
    /\ pc = "getEnv"
    /\ findGitCalls = 1

\* The error's message contains the text 'Git installation not found'.
ToolchainNotFound(e) ==
    /\ e.hasMessage
    /\ \E pre, post \in SeqsUpTo({"Error:", "in", "PATH"}, 2) :
           e.message = pre \o <<"Git", "installation", "not", "found">> \o post

\* C6: a ToolchainNotFound failure is not propagated: it is logged, the
\* missing-git recovery is run and the activation returns an extension
\* without a model; a failure that does not carry the ToolchainNotFound
\* signature is re-raised, with nothing logged and no recovery run.
C6_NotFoundRecoveredOthersRaised ==
    /\ err # None /\ ToolchainNotFound(err[1]) =>
          /\ pc \notin {"thrown", "findGit", "getEnv", "legacyWarning"}
          /\ result # "error"
          /\ recovered
          /\ consoleWarn = <<err[1].message>>
          /\ \E k \in DOMAIN outputChannel : outputChannel[k] = err[1].message
          /\ pc = "returned" => result = "noModel"
    /\ err # None /\ ~ToolchainNotFound(err[1]) =>
          /\ pc = "thrown"
          /\ result = "error"
          /\ ~recovered
          /\ consoleWarn = <<>>
          /\ prompts = <<>>
    /\ result = "error" <=> pc = "thrown"
    /\ pc = "thrown" => err # None /\ ~ToolchainNotFound(err[1])

C6_Witness ==
    /\ pc = "returned"
    /\ result = "noModel"
    /\ err = Some([hasMessage |-> TRUE,
                   message |-> <<"Error:", "Git", "installation", "not", "found", "in", "PATH">>])
    /\ recovered

\* The version string starts with the character 0 or 1.
StartsWith0Or1(version) ==
    \E c \in {"0", "1"} : \E rest \in Versions : version = <<c>> \o rest

\* C7: checkGitVersion presents exactly one warning when the 'ignore legacy
\* warning' flag is not true and the version string starts with 0 or 1, and
\* otherwise presents none and changes no state.
C7_LegacyPromptExactlyWhen ==
    /\ [][(pc = "getEnv" /\ pc' # "getEnv" /\ err' = None) =>
            IF config["ignoreLegacyWarning"] # Some(TRUE)
               /\ StartsWith0Or1(info[1].version)
            THEN /\ pc' = "legacyWarning"
                 /\ prompts' = Append(prompts, "legacy")
            ELSE /\ pc' = "returned"
                 /\ result' = "model"
                 /\ prompts' = prompts
                 /\ config' = config
                 /\ configWrites' = configWrites
                 /\ opened' = opened]_vars
    /\ [][(pc = "legacyWarning") => (prompts' = prompts \/ pc' = "idle")]_vars
    /\ []((pc \in {"getEnv", "findGit", "eventToPromise"}) => (prompts = <<>>))
    /\ []((result = "model") => (Len(prompts) <= 1))

C7_Witness ==
    /\ pc = "legacyWarning"
    /\ info = Some([path |-> "/usr/bin/git", version |-> <<"1", "9">>])
    /\ prompts = <<"legacy">>
    /\ config["ignoreLegacyWarning"] = Some(FALSE)

\* The warning a dismissal flag belongs to.
WarningOf(key) ==
    IF key = "ignoreLegacyWarning" THEN "legacyWarning" ELSE "missingWarning"

\* C8: each dismissal flag is written only with the value true, only at
\* global scope and only when the user chooses "don't show again" in the
\* flag's own warning; choosing update/download or dismissing the warning
\* leaves both flags unchanged; a flag that is true stays true.
C8_FlagsWrittenOnlyOnNeverShowAgain ==
    /\ [](\A w \in configWrites : w.key \in Flags /\ w.value = TRUE /\ w.global = TRUE)
    /\ [][\A k \in Flags :
            (config'[k] # config[k] \/ updateCall(k, TRUE) \in configWrites' \ configWrites)
              => /\ pc = WarningOf(k)
                 /\ choice' = "neverShowAgain"
                 /\ config'[k] = Some(TRUE)
                 /\ updateCall(k, TRUE) \in configWrites']_vars
    /\ [][(pc \in {"legacyWarning", "missingWarning"} /\ pc' = "returned"
             /\ choice' \in {"action", "undefined"})
            => (\A k \in Flags : config'[k] = config[k]) /\ configWrites' = configWrites]_vars
    /\ [][\A k \in Flags : config[k] = Some(TRUE) => config'[k] = Some(TRUE)]_vars

C8_Witness ==
    /\ configWrites = {updateCall("ignoreLegacyWarning", TRUE),
                       updateCall("ignoreMissingGitWarning", TRUE)}
    /\ \A k \in Flags : config[k] = Some(TRUE)
    /\ choice = "neverShowAgain"

\* The folder is on the local filesystem and holds a '.git' directory.
HasGitDirectory(folder) == folder.scheme = "file" /\ folder.dotGit = "directory"

\* C9: when discovery fails with ToolchainNotFound, an open folder holds a
\* '.git' directory and the 'ignore missing git warning' flag is not set,
\* the missing-git warning is presented; answering "don't show again" sets
\* the flag to true, and while the flag is true no activation presents the
\* warning.
C9_DismissedMissingWarningStaysAway ==
    /\ [][(pc = "stat" /\ pc' # "stat"
             /\ \E k \in DOMAIN folders'[1] : HasGitDirectory(folders'[1][k]))
            => (pc' = "missingWarning" /\ prompts' = <<"missing">>)]_vars
    /\ [][(pc = "missingWarning" /\ choice' = "neverShowAgain")
            => (config'["ignoreMissingGitWarning"] = Some(TRUE)
                /\ pc' = "returned" /\ result' = "noModel")]_vars
    /\ []((config["ignoreMissingGitWarning"] = Some(TRUE))
            => (pc \notin {"stat", "missingWarning"}))
    /\ [][(config["ignoreMissingGitWarning"] = Some(TRUE))
            => (\A k \in DOMAIN prompts' :
                   prompts'[k] = "missing" => k \in DOMAIN prompts /\ prompts[k] = "missing")]_vars

C9_Witness ==
    /\ activations = 2
    /\ updateCall("ignoreMissingGitWarning", TRUE) \in configWrites
    /\ config["ignoreMissingGitWarning"] = Some(TRUE)
    /\ pc = "returned"
    /\ recovered
    /\ result = "noModel"
    /\ prompts = <<>>

\* C10: warnAboutMissingGit presents its warning exactly when the dismissal
\* flag is not true and some open folder is on the local filesystem with a
\* '.git' directory; otherwise (no folder list, an empty list, other
\* schemes, a '.git' that is no directory, a failing stat) it presents none;
\* in no case does it raise an error.
C10_MissingPromptExactlyWhen ==
    /\ pc = "missingWarning" =>
          /\ config["ignoreMissingGitWarning"] # Some(TRUE)
          /\ folders # None
          /\ \E k \in DOMAIN folders[1] : HasGitDirectory(folders[1][k])
          /\ prompts = <<"missing">>
    /\ pc = "stat" =>
          /\ config["ignoreMissingGitWarning"] # Some(TRUE)
          /\ folders # None
          /\ prompts = <<>>
    /\ recovered /\ pc = "returned" /\ prompts = <<>> =>
          \/ config["ignoreMissingGitWarning"] = Some(TRUE)
          \/ folders = None
          \/ \A k \in DOMAIN folders[1] : ~HasGitDirectory(folders[1][k])
    /\ recovered => pc \in {"stat", "missingWarning", "returned"} /\ result # "error"

C10_Witness ==
    /\ pc = "missingWarning"
    /\ folders = Some(<<[scheme |-> "vscode-vfs", dotGit |-> "directory"],
                        [scheme |-> "file", dotGit |-> "directory"]>>)

\* -------------------------------------------------------------- installer

\* The keys an installer command writes when every write succeeds.
ExpectedKeys(op) ==
    CASE op = "setVsCodeAsGitEditor" -> <<"core.editor">>
      [] op = "setVsCodeAsGitDiffTool" -> <<"difftool.vscode.cmd", "diff.tool">>
      [] op = "setVsCodeAsGitMergeTool" -> <<"mergetool.vscode.cmd", "merge.tool">>
      [] op = "setVsCodeAsGitTools" ->
             <<"core.editor", "difftool.vscode.cmd", "diff.tool",
               "mergetool.vscode.cmd", "merge.tool">>
      [] OTHER -> <<>>

AttemptedKeys(r) == [k \in DOMAIN r.execs |-> r.execs[k].key]

\* C1: in every installer command, for every pattern of config-write
\* outcomes, the writes are attempted in order and none is attempted after
\* one that failed; a failed write ends the command with false, and the
\* command returns true exactly when every one of its writes succeeded.
C1_ShortCircuitAllOrFalse ==
    \A c \in CallIds :
        LET r == calls[c]
            n == Len(r.execs)
        IN /\ n <= Len(ExpectedKeys(r.op))
           /\ AttemptedKeys(r) = SubSeq(ExpectedKeys(r.op), 1, n)
           /\ \A k \in 1..(n - 1) : r.execs[k].outcome = "exit0"
           /\ (n >= 1 /\ r.execs[n].outcome # "exit0")
                 => (r.pc = "returned" /\ r.returned = Some(FALSE))
           /\ r.pc = "returned" <=> r.returned # None
           /\ r.returned = Some(TRUE)
                 <=> /\ r.pc = "returned"
                     /\ n = Len(ExpectedKeys(r.op))
                     /\ \A k \in 1..n : r.execs[k].outcome = "exit0"

C1_Witness ==
    \E c \in CallIds :
        /\ calls[c].op = "setVsCodeAsGitTools"
        /\ calls[c].returned = Some(FALSE)
        /\ AttemptedKeys(calls[c]) = <<"core.editor", "difftool.vscode.cmd", "diff.tool">>
        /\ calls[c].execs[3].outcome = "spawnError"

\* C11: setGitGlobalConfig runs git exactly once per call and never throws
\* to its caller: it returns true exactly when git exited with code 0, and
\* false for every other exit code and for an exec that fails.
C11_OneExecBooleanResult ==
    \A c \in CallIds :
        LET r == calls[c] IN
        /\ r.pc # "thrown"
        /\ r.setCalls = Len(r.execs) + (IF r.pc = "exec" THEN 1 ELSE 0)
        /\ \A k \in DOMAIN r.execs :
               /\ r.execs[k].ret \in BOOLEAN
               /\ r.execs[k].ret <=> r.execs[k].outcome = "exit0"

C11_Witness ==
    \E c \in CallIds :
        /\ calls[c].pc = "returned"
        /\ Len(calls[c].execs) = 2
        /\ calls[c].execs[1].outcome = "exit0" /\ calls[c].execs[1].ret
        /\ calls[c].execs[2].outcome = "exit1" /\ ~calls[c].execs[2].ret

\* The calls of a finished command all ended with exit code 0.
Healthy(r) == \A k \in DOMAIN r.execs : r.execs[k].outcome = "exit0"

\* C12: with a healthy toolchain and the same application path, running the
\* same installer command twice in a row returns true both times and leaves
\* git's global configuration after the second run equal to the one after
\* the first run.
C12_Idempotent ==
    \A c \in CallIds : \A d \in CallIds :
        (/\ d = c + 1
         /\ calls[c].pc = "returned" /\ calls[d].pc = "returned"
         /\ calls[c].op = calls[d].op
         /\ Healthy(calls[c]) /\ Healthy(calls[d]))
        => /\ calls[c].returned = Some(TRUE)
           /\ calls[d].returned = Some(TRUE)
           /\ calls[d].after = calls[c].after
           /\ calls[d].execs = calls[c].execs

C12_Witness ==
    \E c \in CallIds : \E d \in CallIds :
        /\ d = c + 1
        /\ calls[c].op = "setVsCodeAsGitTools" /\ calls[d].op = "setVsCodeAsGitTools"
        /\ calls[c].returned = Some(TRUE) /\ calls[d].returned = Some(TRUE)
        /\ gitConfig["merge.tool"] = Some(<<"vscode">>)

\* No activation of this host has got a toolchain info from findGit.
NeverLocated == activations <= 1 /\ info = None

\* C13: the installer commands and every other user of the toolchain info
\* come after a successful findGit. While no findGit has succeeded, none of
\* the four installer commands is registered, no installer command runs and
\* git's configuration is not written; the commands are registered only by
\* a step that holds the info findGit resolved with, a command runs only
\* while it is registered, and an info in use never has an empty path.
C13_NothingBeforeDiscovery ==
    /\ [](NeverLocated =>
             /\ registeredCommands \cap InstallerCommands = {}
             /\ \A c \in CallIds : calls[c] = NoCall
             /\ \A k \in GitConfigKeys : gitConfig[k] = None)
    /\ [][registeredCommands' \cap InstallerCommands # registeredCommands \cap InstallerCommands
              => pc = "getEnv" /\ info # None /\ info' = info]_vars
    /\ [](\A c \in CallIds :
             calls[c].pc # "idle" => CommandOf(calls[c].op) \in registeredCommands)
    /\ [](info # None => info[1].path # "")

C13_Witness ==
    /\ activations = 1
    /\ pc = "returned"
    /\ err # None
    /\ result = "noModel"
    /\ registeredCommands = {"git.showOutput"}
    /\ \A k \in GitConfigKeys : gitConfig[k] = None

\* C14: the application path is looked up exactly once by every installer
\* command, whatever the lookup returns: setVsCodeAsGitTools looks it up
\* once and its editor, diff-tool and merge-tool steps all use that value,
\* and a single-tool command run on its own looks it up once.
C14_LookupOncePerCommand ==
    \A c \in CallIds :
        /\ calls[c].pc # "idle" => calls[c].lookups = 1
        /\ \A k \in DOMAIN calls[c].execs :
               Len(calls[c].execs[k].value) = 3 => calls[c].execs[k].value[2] = app

\* The same, for a lookup that returns a non-empty path.
C14_TruthyLookedUpOnce == TruthyString(Some(app)) => C14_LookupOncePerCommand

\* A line made of whitespace only, the empty line included.
AllWhitespace(line) == \A k \in DOMAIN line : line[k] \in Whitespace

\* s with every "\r\n" made "\n".
RECURSIVE DropCR(_)
DropCR(s) ==
    IF s = <<>> THEN <<>>
    ELSE IF Len(s) >= 2 /\ s[1] = "\r" /\ s[2] = "\n" THEN DropCR(Tail(s))
    ELSE <<s[1]>> \o DropCR(Tail(s))

\* ls is s cut at every "\n" and "\r\n": its lines hold no "\n", and put
\* together again with "\n" between them they are s, but for the "\r" of
\* the line breaks.
IsLinesOf(ls, s) ==
    /\ Len(ls) >= 1
    /\ \A j \in DOMAIN ls : \A k \in DOMAIN ls[j] : ls[j][k] # "\n"
    /\ join(ls) = DropCR(s)

\* ls without its trailing all-whitespace lines.
WithoutTrailingBlanks(ls) ==
    LET kept == {k \in DOMAIN ls : ~AllWhitespace(ls[k])}
        n == IF kept = {} THEN 0 ELSE CHOOSE k \in kept : \A j \in kept : j <= k
    IN SubSeq(ls, 1, n)

\* C15: a call of the log listener appends exactly one entry to the output
\* channel. The entry is the input's lines, cut at "\n" and "\r\n", without
\* the trailing lines that are all whitespace; every other line, interior
\* blank lines included, is kept in order, so that the lines of the entry
\* never end with a blank one.
C15_OneEntryTrailingBlanksStripped ==
    /\ opc # "returned" => Len(outputChannel) = 1
    /\ opc = "returned" =>
           /\ Len(outputChannel) = 2
           /\ IsLinesOf(split(str), str)
           /\ lines = WithoutTrailingBlanks(split(str))
           /\ outputChannel[2] = join(lines)
           /\ lines # <<>> => ~AllWhitespace(lines[Len(lines)])

C15_Witness ==
    /\ opc = "returned"
    /\ str = <<"a", "\r", "\n", " ", "\n">>
    /\ outputChannel[2] = <<"a">>

\* An interior blank line is kept while the trailing one goes.
C15_WitnessInterior ==
    /\ opc = "returned"
    /\ str = <<"a", "\n", "\n", "a", "\n">>
    /\ outputChannel[2] = <<"a", "\n", "\n", "a">>

\* The order in which setVsCodeAsGitTools runs the single-tool functions.
ToolOrder == <<"setVsCodeAsGitEditor", "setVsCodeAsGitDiffTool", "setVsCodeAsGitMergeTool">>

\* C16: a single-tool installer command shows exactly one notification, an
\* information message when it returns true and otherwise an error message
\* together with the output log. git.setGitTools failing at its k-th tool
\* shows k-1 information messages and then exactly one error message (and
\* the log); succeeding, it shows three information messages.
C16_OneNotificationPerTool ==
    \A c \in CallIds :
        LET r == calls[c]
            ns == r.notifications
            errors == {k \in DOMAIN ns : ns[k].kind = "error"}
        IN /\ \A k \in DOMAIN ns : ns[k].kind \in {"information", "error"}
           /\ \A k \in errors : k = Len(ns) /\ r.returned = Some(FALSE)
           /\ r.shown = Cardinality(errors)
           /\ r.returned = Some(FALSE) => Cardinality(errors) = 1
           /\ r.returned = Some(TRUE) => errors = {}
           /\ r.op \in SingleTools /\ r.pc = "returned" =>
                  Len(ns) = 1 /\ ns[1].fn = r.op
           /\ r.op \in SingleTools /\ r.pc # "returned" => ns = <<>>
           /\ r.op = "setVsCodeAsGitTools" =>
                  /\ Len(ns) <= 3
                  /\ \A k \in DOMAIN ns : ns[k].fn = ToolOrder[k]
                  /\ r.returned = Some(TRUE) => Len(ns) = 3

C16_Witness ==
    \E c \in CallIds :
        /\ calls[c].op = "setVsCodeAsGitTools"
        /\ calls[c].returned = Some(FALSE)
        /\ calls[c].shown = 1
        /\ calls[c].notifications =
               << [kind |-> "information", fn |-> "setVsCodeAsGitEditor"],
                  [kind |-> "error", fn |-> "setVsCodeAsGitDiffTool"] >>

\* C17: the installer undoes nothing. Every key a step wrote with success
\* keeps the value written, in git's global configuration now and in the
\* configuration the command left when it returned, also when a later step
\* failed and the command returned false.
C17_NoRollback ==
    \A c \in CallIds :
        LET r == calls[c] IN
        \A k \in DOMAIN r.execs :
            r.execs[k].outcome = "exit0" =>
                /\ gitConfig[r.execs[k].key] = Some(r.execs[k].value)
                /\ r.pc = "returned" => r.after[1][r.execs[k].key] = Some(r.execs[k].value)

C17_Witness ==
    \E c \in CallIds :
        /\ calls[c].op = "setVsCodeAsGitDiffTool"
        /\ calls[c].returned = Some(FALSE)
        /\ Len(calls[c].execs) = 2
        /\ calls[c].execs[1].outcome = "exit0"
        /\ calls[c].execs[2].outcome # "exit0"
        /\ gitConfig["difftool.vscode.cmd"] # None
        /\ gitConfig["diff.tool"] = None

\* git.setGitTools fails at the merge tool: the editor and diff-tool keys
\* stay written.
C17_WitnessTools ==
    \E c \in CallIds :
        /\ calls[c].op = "setVsCodeAsGitTools"
        /\ calls[c].returned = Some(FALSE)
        /\ gitConfig["core.editor"] # None
        /\ gitConfig["diff.tool"] # None
        /\ gitConfig["merge.tool"] = None

\* What a healthy installer run leaves under a key.
ExpectedValue(key) ==
    CASE key = "core.editor" -> <<"\"", app, "\" --wait">>
      [] key = "difftool.vscode.cmd" -> <<"\"", app, "\" --wait --diff \"$LOCAL\" \"$REMOTE\"">>
      [] key = "mergetool.vscode.cmd" -> <<"\"", app, "\" --wait \"$MERGED\"">>
      [] key \in {"diff.tool", "merge.tool"} -> <<"vscode">>

\* The keys of the commands that were run.
KeysOfRunCommands ==
    {key \in GitConfigKeys :
        \E c \in CallIds : \E k \in DOMAIN ExpectedKeys(calls[c].op) :
            ExpectedKeys(calls[c].op)[k] = key}

\* C18: installer commands that run at the same time, interleaved at their
\* awaits, with every git subprocess exiting 0 and one application path:
\* whatever the interleaving, once they have all returned each has returned
\* true and git's global configuration is the one they leave when run one
\* after another, every key of theirs with its one value; on the way a key
\* is either unset or holds that value.
C18_InterleavingsAgree ==
    (\A c \in CallIds : Healthy(calls[c])) =>
        /\ \A key \in GitConfigKeys :
               gitConfig[key] = None \/ gitConfig[key] = Some(ExpectedValue(key))
        /\ \A c \in CallIds : calls[c].pc = "returned" => calls[c].returned = Some(TRUE)
        /\ (\A c \in CallIds : calls[c].pc \in {"idle", "returned"}) =>
               \A key \in GitConfigKeys :
                   gitConfig[key] = IF key \in KeysOfRunCommands
                                    THEN Some(ExpectedValue(key)) ELSE None

\* Two commands in flight at once, both then returned.
C18_Witness ==
    \E c \in CallIds : \E d \in CallIds :
        /\ c # d
        /\ calls[c].op = "setVsCodeAsGitTools" /\ calls[c].returned = Some(TRUE)
        /\ calls[d].op = "setVsCodeAsGitMergeTool" /\ calls[d].returned = Some(TRUE)
        /\ calls[d].after[1]["diff.tool"] = None
        /\ calls[c].after[1]["merge.tool"] # None
        /\ \A key \in GitConfigKeys : gitConfig[key] # None

\* C19: on the success path the version check is createModel's last step
\* and activate's result waits for it. While the legacy warning is up
\* activate has not returned, and the four installer commands and the log
\* listener are registered already and can be used; activate returns the
\* extension API either from the version check that showed no warning or
\* when the warning is answered or dismissed.
C19_GateLastAndBlocking ==
    /\ [](pc = "legacyWarning" =>
             /\ result = "pending"
             /\ prompts # <<>> /\ prompts[Len(prompts)] = "legacy"
             /\ InstallerCommands \subseteq registeredCommands
             /\ logListener
             /\ ENABLED onOutput
             /\ (\A c \in CallIds : calls[c].pc = "idle") =>
                    \A op \in Installers : \E c \in CallIds : ENABLED invoke(c, op))
    /\ [][result' = "model" /\ result # "model" =>
              \/ pc = "getEnv" /\ prompts' = prompts
              \/ pc = "legacyWarning" /\ choice' \in Choices]_vars

C19_Witness ==
    /\ pc = "legacyWarning"
    /\ result = "pending"
    /\ \E c \in CallIds :
           calls[c].op = "setVsCodeAsGitTools" /\ calls[c].returned = Some(TRUE)

\* Every line of the string is all whitespace: the empty string, and the
\* strings made of blanks and line breaks only.
OnlyBlankLines(s) == \A k \in DOMAIN split(s) : AllWhitespace(split(s)[k])

\* C20: the loop that strips the trailing blank lines ends for every input:
\* the log listener, once called, returns. That holds for the empty string
\* and for a string of whitespace lines only, where every line is popped
\* and the test on the empty list fails; one entry, the empty one, is still
\* appended.
C20_StrippingTerminates ==
    /\ <>(opc = "returned")
    /\ [](opc = "while" /\ lines = <<>> => ENABLED appendLine)
    /\ [][opc = "while" /\ opc' = "while" => Len(lines') < Len(lines)]_vars
    /\ [](opc = "returned" /\ OnlyBlankLines(str) =>
             /\ lines = <<>>
             /\ Len(outputChannel) = 2
             /\ outputChannel[2] = <<>>)

C20_Witness ==
    /\ opc = "returned"
    /\ str = <<" ", "\n", "\r", "\n">>
    /\ lines = <<>>
    /\ outputChannel[2] = <<>>

\* The empty string.
C20_WitnessEmpty ==
    /\ opc = "returned"
    /\ str = <<>>
    /\ outputChannel[2] = <<>>

====
